---- MODULE Spec2Model ----
(***************************************************************************)
(* Model of backlink_adder (src/src.py): MarkdownDirectory / MarkdownFile. *)
(*                                                                         *)
(* A path is a record [abs, segs, frag]: abs says whether the string       *)
(* starts with "/", segs are its components, frag says whether the last    *)
(* component carries a "#fragment" suffix.  A file is a sequence of        *)
(* characters; a rendered hyperlink "[text](href)" and a first-level       *)
(* heading line are single tokens of that sequence.                        *)
(***************************************************************************)
EXTENDS Integers, Sequences, FiniteSets, TLC

VARIABLES rootArg,     \* path_string given to MarkdownDirectory.__init__
          files,       \* MarkdownDirectory.files: key -> [path, heading]
          order,       \* iteration order of files (rglob / dict order)
          hashOrder,   \* iteration order of a set of paths in this process
          disk,        \* file system: canonical segs -> raw file text
          start,       \* disk as it was when the collection was built
          pass,        \* number of the add_all_backlinks() call in progress
          pos,         \* index into order of the next file of this pass
          afterPass1,  \* disk at the end of the first pass
          lastDoc,     \* key of the file add_backlinks() last ran on
          lastPre      \* disk right after that call truncated the file

vars == <<rootArg, files, order, hashOrder, disk, start, pass, pos,
          afterPass1, lastDoc, lastPre>>

MaxPasses == 2

-----------------------------------------------------------------------------
(* Paths (pathlib / os.path).                                              *)

Cwd == <<"w">>

MkPath(a, s, f) == [abs |-> a, segs |-> s, frag |-> f]

EmptyHref == MkPath(FALSE, <<>>, FALSE)

NonePath == MkPath(FALSE, <<"None">>, FALSE)

\* names whose extension, lower-cased, is ".md"
MdNames == {"a.md", "b.md", "c.md", "z.MD"}

RECURSIVE NormPath(_)
\* lexical normalisation of absolute components: drop ".", apply ".."
NormPath(s) ==
  IF s = <<>> THEN <<>>
  ELSE LET r    == NormPath(SubSeq(s, 1, Len(s) - 1))
           last == s[Len(s)]
       IN  IF last = "." THEN r
           ELSE IF last = ".."
                THEN (IF r = <<>> THEN <<>> ELSE SubSeq(r, 1, Len(r) - 1))
                ELSE Append(r, last)

\* pathlib.Path(str): "." components vanish, ".." components stay
PurePath(p) ==
  MkPath(p.abs, SelectSeq(p.segs, LAMBDA x : x # "."), p.frag)

\* Path.resolve(): absolute against the working directory, normalised
\* (the modelled tree holds no symbolic links)
Resolve(p) ==
  MkPath(TRUE, NormPath(IF p.abs THEN p.segs ELSE Cwd \o p.segs), p.frag)

\* base / other
Join(base, other) ==
  IF other.abs THEN PurePath(other)
  ELSE PurePath(MkPath(base.abs, base.segs \o other.segs, other.frag))

\* Path.parent
Parent(p) ==
  IF p.segs = <<>> THEN MkPath(p.abs, <<>>, FALSE)
  ELSE MkPath(p.abs, SubSeq(p.segs, 1, Len(p.segs) - 1), FALSE)

\* Path.name
Name(p) == IF p.segs = <<>> THEN "" ELSE p.segs[Len(p.segs)]

RECURSIVE CommonLen(_, _)
CommonLen(s, t) ==
  IF s # <<>> /\ t # <<>> /\ s[1] = t[1]
  THEN 1 + CommonLen(Tail(s), Tail(t))
  ELSE 0

\* os.path.relpath(target, start_dir)
RelPath(target, startDir) ==
  LET t  == Resolve(target).segs
      s  == Resolve(startDir).segs
      i  == CommonLen(s, t)
      up == [j \in 1..(Len(s) - i) |-> ".."]
      r  == up \o SubSeq(t, i + 1, Len(t))
  IN  MkPath(FALSE, IF r = <<>> THEN <<".">> ELSE r, FALSE)

-----------------------------------------------------------------------------
(* File text.                                                              *)

Ch(x) == [c |-> x, href |-> EmptyHref, text |-> ""]

\* a rendered hyperlink "[text](href)"
Anchor(h, t) == [c |-> "<a>", href |-> h, text |-> t]

\* a first-level heading line
H1(t) == [c |-> "<h1>", href |-> EmptyHref, text |-> t]

NL == Ch("\n")

Separator == <<NL, NL, Ch("-"), Ch("-"), Ch("-"), NL, NL>>

BacklinksHeading ==
  <<Ch("#"), Ch("#"), Ch(" "), Ch("B"), Ch("a"), Ch("c"), Ch("k"), Ch("l"),
    Ch("i"), Ch("n"), Ch("k"), Ch("s"), Ch(":"), NL>>

\* the literal searched for by add_backlinks
Marker ==
  <<NL, NL, Ch("-"), Ch("-"), Ch("-"), NL, NL,
    Ch("#"), Ch("#"), Ch(" "), Ch("B"), Ch("a"), Ch("c"), Ch("k"), Ch("l"),
    Ch("i"), Ch("n"), Ch("k"), Ch("s"), Ch(":"), NL>>

RECURSIVE Decode(_)
\* file.read() in text mode: "\r\n" and "\r" are read as "\n"
Decode(raw) ==
  IF raw = <<>> THEN <<>>
  ELSE IF raw[1] = Ch("\r")
       THEN IF Len(raw) >= 2 /\ raw[2] = NL
            THEN <<NL>> \o Decode(SubSeq(raw, 3, Len(raw)))
            ELSE <<NL>> \o Decode(Tail(raw))
       ELSE <<raw[1]>> \o Decode(Tail(raw))

\* str.find: 0-based index of the first occurrence, or -1
Find(content, pat) ==
  LET hits == {i \in 0..(Len(content) - Len(pat)) :
                 SubSeq(content, i + 1, i + Len(pat)) = pat}
  IN  IF hits = {} THEN -1
      ELSE CHOOSE i \in hits : \A j \in hits : i <= j

\* open(path): the file a path denotes
FileOf(p) == Resolve(p).segs

ReadFile(f, p) == Decode(f[FileOf(p)])

-----------------------------------------------------------------------------
(* MarkdownFile.                                                           *)

get_absolute_path(selfPath, somepath) ==
  IF somepath = EmptyHref THEN NonePath
  ELSE IF somepath.abs THEN PurePath(somepath)
  ELSE Resolve(Join(Resolve(Parent(selfPath)),
                    [somepath EXCEPT !.frag = FALSE]))

\* the filter of MarkdownFile.links
IsMd(p) == Name(p) \in MdNames

\* MarkdownFile.links
links(f, selfPath) ==
  LET content == ReadFile(f, selfPath)
      hrefs   == {content[i].href :
                    i \in {j \in DOMAIN content : content[j].c = "<a>"}}
  IN  {q \in {get_absolute_path(selfPath, h) : h \in hrefs} : IsMd(q)}

\* MarkdownFile.heading, set by the constructor
Heading(f, selfPath) ==
  LET content == ReadFile(f, selfPath)
      hs      == {i \in DOMAIN content : content[i].c = "<h1>"}
  IN  IF hs = {} THEN Name(selfPath)
      ELSE content[CHOOSE i \in hs : \A j \in hs : i <= j].text

-----------------------------------------------------------------------------
(* MarkdownDirectory.                                                      *)

\* the markdown files below the root directory /w/r, relative to it
DocRel == {<<"a.md">>, <<"b.md">>, <<"sub", "c.md">>}

\* p_path.rglob('*.md')
rglob(p_path) == {Join(p_path, MkPath(FALSE, rel, FALSE)) : rel \in DocRel}

\* (self.p_path.parent.resolve() / str(eachpath)).resolve()
KeyOf(p_path, eachpath) ==
  Resolve(Join(Resolve(Parent(p_path)), eachpath))

\* MarkdownFile.__init__: the path is stored as rglob yielded it
MarkdownFile(f, eachpath) ==
  [path |-> eachpath, heading |-> Heading(f, eachpath)]

\* MarkdownDirectory.__init__
BuildFiles(p_path, f) ==
  LET found == rglob(p_path)
      keys  == {KeyOf(p_path, e) : e \in found}
  IN  [k \in keys |->
         MarkdownFile(f, CHOOSE e \in found : KeyOf(p_path, e) = k)]

\* link_map as a field filled when the collection was built
link_map_cached(f) == [k \in DOMAIN files |-> links(start, files[k].path)]

\* MarkdownDirectory.link_map
link_map(f) == [k \in DOMAIN files |-> links(f, files[k].path)]

\* one "- [heading](relpath)\n" line per backlink, in set iteration order
RECURSIVE EntryLines(_, _, _)
EntryLines(ord, backs, selfPath) ==
  IF ord = <<>> THEN <<>>
  ELSE (IF ord[1] \in backs
        THEN <<Ch("-"), Ch(" "),
               Anchor(RelPath(ord[1], Parent(selfPath)),
                      files[ord[1]].heading),
               NL>>
        ELSE <<>>)
       \o EntryLines(Tail(ord), backs, selfPath)

\* first half of add_backlinks: drop what follows the marker
Truncate(f, selfPath) ==
  LET content == ReadFile(f, selfPath)
      index   == Find(content, Marker)
  IN  IF index # -1
      THEN [f EXCEPT ![FileOf(selfPath)] = SubSeq(@, 1, index)]
      ELSE f

\* the linking documents, without the "- self.links"
Backlinks_NoExclusion(f, selfPath) ==
  LET lm == link_map(f)
  IN  {key \in DOMAIN lm : selfPath \in lm[key]}

\* the set add_backlinks iterates over
Backlinks(f, selfPath) ==
  LET lm == link_map(f)
  IN  {key \in DOMAIN lm : selfPath \in lm[key]} \ links(f, selfPath)

\* second half of add_backlinks: append the block
AppendBlock(f, selfPath) ==
  [f EXCEPT ![FileOf(selfPath)] =
     @ \o Separator \o BacklinksHeading
       \o EntryLines(hashOrder, Backlinks(f, selfPath), selfPath)]

\* MarkdownFile.add_backlinks, on the file keyed k
add_backlinks(f, k) ==
  AppendBlock(Truncate(f, files[k].path), files[k].path)

-----------------------------------------------------------------------------
(* The documents a run starts from.                                        *)

RootDir == <<"w", "r">>

KA == MkPath(TRUE, <<"w", "r", "a.md">>, FALSE)
KB == MkPath(TRUE, <<"w", "r", "b.md">>, FALSE)
KC == MkPath(TRUE, <<"w", "r", "sub", "c.md">>, FALSE)

Docs == {KA, KB, KC}

DocSeq == <<KA, KB, KC>>

\* root arguments naming /w/r: relative, absolute, absolute through ".."
RootArgs == {MkPath(FALSE, <<"r">>, FALSE),
             MkPath(TRUE, <<"w", "r">>, FALSE),
             MkPath(TRUE, <<"w", "r", "..", "r">>, FALSE)}

CanonRoot == MkPath(TRUE, RootDir, FALSE)

Orders == {s \in [1..3 -> Docs] : \A i, j \in 1..3 : s[i] = s[j] => i = j}

\* the components of t below the root directory
BelowRoot(t) == SubSeq(t.segs, Len(RootDir) + 1, Len(t.segs))

\* the usual relative spelling, in document d, of a link to the file
\* whose components below the root are rel
PlainSegs(d, rel) ==
  IF Len(d.segs) = Len(RootDir) + 1 THEN rel
  ELSE IF Len(rel) = 2 THEN <<rel[2]>> ELSE <<"..">> \o rel

\* every modelled spelling, in document d, of a link to that file
Spellings(d, rel) ==
  {MkPath(FALSE, PlainSegs(d, rel), fr) : fr \in BOOLEAN}
    \cup {MkPath(FALSE, <<".">> \o PlainSegs(d, rel), fr) : fr \in BOOLEAN}
    \cup {MkPath(FALSE, <<"..", d.segs[Len(d.segs) - 1]>> \o PlainSegs(d, rel),
                 fr) : fr \in BOOLEAN}
    \cup {MkPath(TRUE, RootDir \o rel, fr) : fr \in BOOLEAN}
    \cup {MkPath(TRUE, RootDir \o <<"..", "r">> \o rel, fr) : fr \in BOOLEAN}

\* links that denote no document: empty, fragment only, a picture, files
\* that do not exist
OtherHrefs ==
  {EmptyHref, MkPath(FALSE, <<>>, TRUE), MkPath(FALSE, <<"img.png">>, FALSE),
   MkPath(FALSE, <<"z.MD">>, FALSE), MkPath(TRUE, <<"w", "z.MD">>, TRUE)}

RECURSIVE PlainLinks(_, _, _)
\* the links of document d to the documents of S, one after the other
PlainLinks(d, ord, S) ==
  IF ord = <<>> THEN <<>>
  ELSE (IF ord[1] \in S
        THEN <<Anchor(MkPath(FALSE, PlainSegs(d, BelowRoot(ord[1])), FALSE),
                      "")>>
        ELSE <<>>)
       \o PlainLinks(d, Tail(ord), S)

AtMostOne == {S \in SUBSET Docs : Cardinality(S) <= 1}

\* texts a body may end with
Tails ==
  {<<>>,
   <<NL>>,
   <<Ch("\r"), NL>>,
   SubSeq(Marker, 1, Len(Marker) - 1),
   <<H1("Alpha")>>,
   Marker \o <<Ch("y")>>}

MkDisk(ca, cb, cc) ==
  [p \in {k.segs : k \in Docs} |->
     IF p = KA.segs THEN ca ELSE IF p = KB.segs THEN cb ELSE cc]

Others(d) == SUBSET (Docs \ {d})

OneOther(d) == {S \in Others(d) : Cardinality(S) <= 1}

\* clean documents linking to each other by plain relative links
InitGraph ==
  /\ rootArg \in RootArgs
  /\ order \in Orders
  /\ hashOrder \in (IF rootArg = CanonRoot THEN Orders ELSE {DocSeq})
  /\ \E la \in Others(KA), lb \in Others(KB), lc \in Others(KC) :
       disk = MkDisk(<<Ch("x")>> \o PlainLinks(KA, DocSeq, la),
                     <<Ch("x")>> \o PlainLinks(KB, DocSeq, lb),
                     <<Ch("x")>> \o PlainLinks(KC, DocSeq, lc))

\* a body followed by a block: none, or the marker and the links to S
WithBlock(d, body, hasBlock, S) ==
  body \o (IF hasBlock THEN Marker \o PlainLinks(d, DocSeq, S) ELSE <<>>)

\* documents that already hold a generated block, possibly out of date
InitStale ==
  /\ rootArg = CanonRoot
  /\ order \in Orders
  /\ hashOrder = DocSeq
  /\ \E la \in OneOther(KA), lb \in OneOther(KB) :
     \E sa \in OneOther(KA), sb \in OneOther(KB), sc \in OneOther(KC) :
     \E ba, bb, bc \in BOOLEAN :
       /\ (~ba => sa = {}) /\ (~bb => sb = {}) /\ (~bc => sc = {})
       /\ disk = MkDisk(
            WithBlock(KA, <<Ch("x")>> \o PlainLinks(KA, DocSeq, la), ba, sa),
            WithBlock(KB, <<Ch("x")>> \o PlainLinks(KB, DocSeq, lb), bb, sb),
            WithBlock(KC, <<Ch("x")>>, bc, sc))

\* one link of a.md spelt in every way
InitSpellings ==
  /\ rootArg \in RootArgs
  /\ order \in Orders
  /\ hashOrder = DocSeq
  /\ \E h \in Spellings(KA, BelowRoot(KB)) \cup Spellings(KA, BelowRoot(KC))
                \cup OtherHrefs :
     \E lb \in AtMostOne :
       disk = MkDisk(<<Ch("x"), Anchor(h, "")>>,
                     <<Ch("x")>> \o PlainLinks(KB, DocSeq, lb),
                     <<Anchor(MkPath(FALSE, <<".", "..", "a.md">>, TRUE), "")>>)

\* bodies ending in text close to the marker
InitText ==
  /\ rootArg = CanonRoot
  /\ order \in Orders
  /\ hashOrder = DocSeq
  /\ \E ta, tb \in Tails :
     \E la \in OneOther(KA), lb \in {{}, {KA}} :
       disk = MkDisk(<<Ch("x")>> \o PlainLinks(KA, DocSeq, la) \o ta,
                     PlainLinks(KB, DocSeq, lb) \o tb,
                     PlainLinks(KC, DocSeq, {KA, KB}))

Init ==
  /\ (InitGraph \/ InitStale \/ InitSpellings \/ InitText)
  /\ files = BuildFiles(rootArg, disk)
  /\ start = disk
  /\ pass = 1
  /\ pos = 1
  /\ afterPass1 = disk
  /\ lastDoc = KA
  /\ lastPre = disk

-----------------------------------------------------------------------------
(* Operations.                                                             *)

\* one iteration of the loop of add_all_backlinks: file.add_backlinks()
AddBacklinksStep ==
  /\ pos <= Len(order)
  /\ LET k == order[pos]
     IN  /\ disk' = add_backlinks(disk, k)
         /\ lastDoc' = k
         /\ lastPre' = Truncate(disk, files[k].path)
  /\ pos' = pos + 1
  /\ afterPass1' = IF pass = 1 /\ pos = Len(order) THEN disk' ELSE afterPass1
  /\ UNCHANGED <<rootArg, files, order, hashOrder, start, pass>>

\* the caller invokes add_all_backlinks() once more
add_all_backlinks ==
  /\ pos > Len(order)
  /\ pass < MaxPasses
  /\ pass' = pass + 1
  /\ pos' = 1
  /\ UNCHANGED <<rootArg, files, order, hashOrder, disk, start, afterPass1,
                 lastDoc, lastPre>>

Next == AddBacklinksStep \/ add_all_backlinks

Spec == Init /\ [][Next]_vars

-----------------------------------------------------------------------------
(* Vocabulary of the properties.                                           *)

\* some add_backlinks() call has completed; lastDoc and lastPre describe it
Called == pos > 1 \/ pass > 1

PassDone(n) == pass = n /\ pos > Len(order)

\* the file a reader of document d reaches by following href
TargetOf(d, href) == Resolve(Join(Parent(d), [href EXCEPT !.frag = FALSE]))

\* the files the hyperlinks of a text lead to, read in document d
Targets(d, text) ==
  {TargetOf(d, text[i].href) : i \in {j \in DOMAIN text : text[j].c = "<a>"}}

\* what the last add_backlinks() call appended to its file
WrittenBlock ==
  LET file == FileOf(files[lastDoc].path)
  IN  SubSeq(disk[file], Len(lastPre[file]) + 1, Len(disk[file]))

\* the documents the entries of that block lead to
WrittenEntries == Targets(lastDoc, WrittenBlock)

\* outbound_links of the document keyed k, read from the file system f
Outbound(f, k) == links(f, files[k].path)

\* what follows the first marker of document d in the file system f
BlockOf(f, d) ==
  LET content == Decode(f[d.segs])
      index   == Find(content, Marker)
  IN  IF index = -1 THEN <<>>
      ELSE SubSeq(content, index + 1, Len(content))

BlockEntries(f, d) == Targets(d, BlockOf(f, d))

HasBlock(f, d) == Find(Decode(f[d.segs]), Marker) # -1

\* the text of document d in front of its first marker
BodyOf(f, d) ==
  LET content == Decode(f[d.segs])
      index   == Find(content, Marker)
  IN  IF index = -1 THEN content ELSE SubSeq(content, 1, index)

Before(x, y) ==
  \E i, j \in DOMAIN order : i < j /\ order[i] = x /\ order[j] = y

-----------------------------------------------------------------------------
(* Properties.                                                             *)

\* C1: the entries add_backlinks(D) writes are exactly the documents whose
\* outbound links contain D's canonical path, minus D's own outbound links,
\* all read right after D's previous block was truncated.
C1_EntriesAreInboundMinusOutbound ==
  Called =>
    WrittenEntries =
      {S \in DOMAIN files : lastDoc \in Outbound(lastPre, S)}
        \ Outbound(lastPre, lastDoc)

\* C2: a second add_all_backlinks() leaves every file as the first left it.
C2_SecondPassChangesNothing ==
  PassDone(2) => disk = afterPass1

\* C3: add_backlinks(D) never writes an entry for a document that D's own
\* text links to.
C3_NoEntryForLinkedDocument ==
  Called =>
    \A S \in Docs :
      S \in Targets(lastDoc, lastPre[lastDoc.segs]) => S \notin WrittenEntries

\* C4 (as stated): if A's outbound links contain B, the entries written for
\* B exclude A.
C4_LinkingDocumentExcluded ==
  Called =>
    \A docA \in DOMAIN files :
      lastDoc \in Outbound(lastPre, docA) => docA \notin WrittenEntries

\* C4 (amended): if B's outbound links contain A, the entries written for B
\* exclude A, whichever other documents are kept.
C4_LinkedDocumentExcluded ==
  Called =>
    \A docA \in DOMAIN files :
      docA \in Outbound(lastPre, lastDoc) => docA \notin WrittenEntries

\* B links to A, A links to B, C links to B: only C is written into B
C4_Witness ==
  /\ Called
  /\ \E docA, docC \in DOMAIN files :
       /\ docA # docC
       /\ docA \in Outbound(lastPre, lastDoc)
       /\ lastDoc \in Outbound(lastPre, docA)
       /\ lastDoc \in Outbound(lastPre, docC)
       /\ docC \in WrittenEntries
       /\ docA \notin WrittenEntries

\* C5: every entry written for D names a key of files whose outbound links,
\* read before the block was appended, contained D's canonical path.
C5_EntriesComeFromLinkingDocuments ==
  Called =>
    \A S \in WrittenEntries :
      S \in DOMAIN files /\ lastDoc \in Outbound(lastPre, S)

\* C6: every spelling of a link that leads to document T resolves to T's
\* key.
C6_OneCanonicalPathPerTarget ==
  \A d \in Docs :
    \A i \in {j \in DOMAIN disk[d.segs] : disk[d.segs][j].c = "<a>"} :
      \A T \in Docs :
        TargetOf(d, disk[d.segs][i].href) = T =>
          get_absolute_path(files[d].path, disk[d.segs][i].href) = T

\* C7: each file's stored path is the key it is filed under.
C7_StoredPathIsKey ==
  \A k \in DOMAIN files : files[k].path = k

\* C8: a document that started without the marker consists, after any
\* add_backlinks() calls, of its original text and one generated block.
C8_BodyThenOneBlock ==
  (Called /\ ~HasBlock(start, lastDoc)) =>
    LET raw  == disk[lastDoc.segs]
        body == start[lastDoc.segs]
        n    == Len(body)
    IN  /\ Len(raw) >= n + Len(Marker)
        /\ SubSeq(raw, 1, n) = body
        /\ SubSeq(raw, n + 1, n + Len(Marker)) = Marker
        /\ Find(Decode(SubSeq(raw, n + 2, Len(raw))), Marker) = -1

\* A holds a stale block linking to B and nothing else links A or B
StaleLink(docA, docB) ==
  /\ rootArg = CanonRoot
  /\ docA # docB
  /\ HasBlock(start, docA)
  /\ Targets(docA, BodyOf(start, docA)) = {}
  /\ BlockEntries(start, docA) = {docB}
  /\ Targets(docB, start[docB.segs]) = {}
  /\ \A docC \in Docs \ {docA, docB} :
       Targets(docC, start[docC.segs]) \cap {docA, docB} = {}

\* C9: the processing order decides the outcome: with a stale block in A
\* linking to B, processing A first ends with no entry in either block,
\* processing B first ends with an entry for A in B and for B in A.
C9_OrderDecidesEntries ==
  PassDone(1) =>
    \A docA, docB \in Docs :
      StaleLink(docA, docB) =>
        /\ Before(docA, docB) =>
             BlockEntries(disk, docA) = {} /\ BlockEntries(disk, docB) = {}
        /\ Before(docB, docA) =>
             BlockEntries(disk, docA) = {docB}
               /\ BlockEntries(disk, docB) = {docA}

C9_Witness ==
  /\ PassDone(1)
  /\ \E docA, docB \in Docs :
       /\ StaleLink(docA, docB)
       /\ Before(docB, docA)
       /\ BlockEntries(disk, docA) = {docB}
       /\ BlockEntries(disk, docB) = {docA}

\* C10: from files without generated blocks, a pass ends, whatever the
\* order, with the entries {S : D in S's body links} minus D's body links.
C10_CleanStartEntries ==
  (PassDone(1) /\ \A d \in Docs : ~HasBlock(start, d)) =>
    \A d \in Docs :
      BlockEntries(disk, d) =
        {S \in DOMAIN files : d \in Outbound(start, S)} \ Outbound(start, d)

====
